---- MODULE Spec2Model ----
(***************************************************************************)
(* Model of the third digging map generator (src/Digger/digger3.cpp).      *)
(* The state is the program's globals (size_x, size_y, grid, doorways),    *)
(* the locals of dig_loop and dig_random that live across generator calls  *)
(* (door, tries), the position in dig_loop (pc), a record of the last      *)
(* generator call (call), the accesses the run has made outside the grid   *)
(* (oob), the draws that are fixed in advance for the first passes of a    *)
(* run on the large grid (plan), the characters written to the standard    *)
(* output (out), and the cells permawall_tile has been called on so far    *)
(* (corners).                                                              *)
(***************************************************************************)
EXTENDS Integers, Sequences, FiniteSets

VARIABLES size_x, size_y, grid, doorways, pc, door, tries, call, oob, plan, out, corners

vars == <<size_x, size_y, grid, doorways, pc, door, tries, call, oob, plan, out, corners>>

(***************************************************************************)
(* Bounds of the model: the grid sizes main() is started with.             *)
(***************************************************************************)
MaxX == 5
MaxY == 5

\* enum { TILE_UNKNOWN, TILE_FLOOR, TILE_WALL, TILE_PERMAWALL, TILE_DOOR }
TILE_UNKNOWN == 0
TILE_FLOOR == 1
TILE_WALL == 2
TILE_PERMAWALL == 3
TILE_DOOR == 4

max_tries == 5

(***************************************************************************)
(* class Vector                                                            *)
(***************************************************************************)
Vector(x, y) == [x |-> x, y |-> y]
VAdd(a, b) == Vector(a.x + b.x, a.y + b.y)
VSub(a, b) == Vector(a.x - b.x, a.y - b.y)
VMul(a, scalar) == Vector(a.x * scalar, a.y * scalar)
\* left() without its minus sign
left_unsigned(v) == Vector(v.y, v.x)
left(v) == Vector(v.y, 0 - v.x)
right(v) == Vector(0 - v.y, v.x)

\* class Doorway
Doorway(l, h, d) == [location |-> l, heading |-> h, has_door |-> d]

\* rand() % (Max-Min+1) + Min with rand() >= 0: any value of Min..Max
rand_range(Min, Max) == Min..Max

(***************************************************************************)
(* Bounds predicates and the tile accessors.  A memory state m is the grid *)
(* together with oob, the set of positions outside the allocated rows that *)
(* were read or written: such an access is recorded there instead of       *)
(* reading or writing a cell.                                              *)
(***************************************************************************)
is_in_bounds(v) == v.x >= 1 /\ v.y >= 1 /\ v.x < size_x - 1 /\ v.y < size_y - 1
is_in_bounds_or_border(v) == v.x >= 0 /\ v.y >= 0 /\ v.x < size_x /\ v.y < size_y

\* the cells init_map allocated: grid[0..size_y-1][0..size_x-1]
Allocated(v) == v.y \in 0..(size_y - 1) /\ v.x \in 0..(size_x - 1)

Cells == {Vector(x, y) : x \in 0..(size_x - 1), y \in 0..(size_y - 1)}

tile(g, v) == g[v.y][v.x]

is_wall(g, v) ==
    \/ tile(g, v) = TILE_WALL
    \/ tile(g, v) = TILE_UNKNOWN
    \/ tile(g, v) = TILE_PERMAWALL
is_permawall(g, v) == tile(g, v) = TILE_PERMAWALL

set_tile(m, v, t) ==
    IF Allocated(v)
    THEN [m EXCEPT !.grid = [m.grid EXCEPT ![v.y] = [m.grid[v.y] EXCEPT ![v.x] = t]]]
    ELSE [m EXCEPT !.oob = m.oob \cup {v}]
dig_tile(m, v) == set_tile(m, v, TILE_FLOOR)
door_tile(m, v) == set_tile(m, v, TILE_DOOR)
fill_tile(m, v) == set_tile(m, v, TILE_WALL)
permawall_tile(m, v) == set_tile(m, v, TILE_PERMAWALL)

\* init_map: every cell TILE_UNKNOWN
init_map(sx, sy) == [y \in 0..(sy - 1) |-> [x \in 0..(sx - 1) |-> TILE_UNKNOWN]]

\* the record kept of a generator call: which generator, what it returned and
\* at which return statement, dig_corridor's length and found_intersect there
\* (when the walk of lines 246-262 was left without a return), and the size and
\* entrance_offset of a room that was dug
NoCall == [op |-> "none", ret |-> 0, at |-> "none", length |-> 0,
           found_intersect |-> FALSE, size |-> Vector(0, 0), entrance_offset |-> 0]
NoDoor == Doorway(Vector(0, 0), Vector(0, 0), FALSE)

(***************************************************************************)
(* dig_room (lines 150-231).  size is the drawn Vector (size.x, size.y),   *)
(* r the three values drawn for the positions of the new doorways.  The    *)
(* loops walk pos over the (size.x+2) x (size.y+2) rectangle row by row;   *)
(* RoomPos(corner, heading, w, k) is pos in pass k of the inner loop body. *)
(***************************************************************************)
RoomPos(corner, heading, w, k) ==
    VAdd(VAdd(corner, VMul(right(heading), k % w)), VMul(heading, k \div w))

\* lines 177-183: the inner loop from column xi on, pos being the cell of that
\* column: ret is 1 when the row is done and 0 for a return 0; oob holds the
\* cell when is_wall is handed one outside the grid
RECURSIVE room_check_row(_, _, _, _, _, _)
room_check_row(g, pos, entrance, heading, w, xi) ==
    IF xi >= w THEN [ret |-> 1, oob |-> {}]
    ELSE IF ~is_in_bounds_or_border(pos) THEN [ret |-> 0, oob |-> {}]
    ELSE IF ~Allocated(pos) THEN [ret |-> 0, oob |-> {pos}]
    ELSE IF ~is_wall(g, pos) /\ pos # entrance THEN [ret |-> 0, oob |-> {}]
    ELSE room_check_row(g, VAdd(pos, right(heading)), entrance, heading, w, xi + 1)

\* lines 176-186: the outer loop from row yi on, pos being the first cell of
\* that row
RECURSIVE room_check_rows(_, _, _, _, _, _, _)
room_check_rows(g, pos, entrance, heading, w, h, yi) ==
    IF yi >= h THEN [ret |-> 1, oob |-> {}]
    ELSE LET row == room_check_row(g, pos, entrance, heading, w, 0)
         IN  IF row.ret = 0 THEN row
             ELSE room_check_rows(g, VAdd(pos, heading), entrance, heading, w, h, yi + 1)

\* room_check with yi<size.y+1 for the yi<size.y+2 of line 176: the far row of
\* the area is not looked at
room_check_near_rows(g, corner, entrance, heading, size) ==
    room_check_rows(g, corner, entrance, heading, size.x + 2, size.y + 1, 0)

\* lines 174-186: the result of the check, and what it read outside the grid
room_check(g, corner, entrance, heading, size) ==
    room_check_rows(g, corner, entrance, heading, size.x + 2, size.y + 2, 0)

\* a call of dig_tile, door_tile, fill_tile or permawall_tile
W(v, t) == [v |-> v, t |-> t]

\* the memory after the calls ws, made in order: each cell holds the tile of
\* the last call that named it
apply_writes(m, ws) ==
    [grid |-> [y \in 0..(size_y - 1) |-> [x \in 0..(size_x - 1) |->
                 LET hits == {i \in 1..Len(ws) : ws[i].v = Vector(x, y)}
                 IN  IF hits = {} THEN m.grid[y][x]
                     ELSE ws[CHOOSE i \in hits : \A j \in hits : j <= i].t]],
     oob |-> m.oob \cup {ws[i].v : i \in {j \in 1..Len(ws) : ~Allocated(ws[j].v)}}]

\* lines 188-198: fill the whole area with rock
room_fill(corner, heading, w, n) ==
    [k \in 1..n |-> W(RoomPos(corner, heading, w, k - 1), TILE_WALL)]

\* lines 200-204: turn the corners into permawall
room_corners(corner, heading, size) ==
    << W(corner, TILE_PERMAWALL),
       W(VAdd(corner, VMul(right(heading), size.x + 1)), TILE_PERMAWALL),
       W(VAdd(corner, VMul(heading, size.y + 1)), TILE_PERMAWALL),
       W(VAdd(VAdd(corner, VMul(right(heading), size.x + 1)), VMul(heading, size.y + 1)),
         TILE_PERMAWALL) >>

\* room_inside without the step to the right at line 207: the inside starts
\* in the left wall
room_inside_from_wall(corner, heading, size) ==
    [k \in 1..(size.x * size.y) |->
        W(RoomPos(VAdd(corner, heading), heading, size.x, k - 1), TILE_FLOOR)]

\* lines 206-215: dig out the inside
room_inside(corner, heading, size) ==
    [k \in 1..(size.x * size.y) |->
        W(RoomPos(VAdd(VAdd(corner, heading), right(heading)), heading, size.x, k - 1),
          TILE_FLOOR)]

\* lines 188-218: the tile calls of a room that fits, in program order
room_writes(corner, entrance, heading, size) ==
    room_fill(corner, heading, size.x + 2, (size.x + 2) * (size.y + 2))
      \o room_corners(corner, heading, size)
      \o room_inside(corner, heading, size)
      \o << W(entrance, TILE_DOOR) >>

\* room_doorways with rand_range(0, ...) for the rand_range(1, ...) of lines
\* 221, 224 and 227: a doorway may lie on a corner
room_doorways_from_corner(corner, heading, size, r) ==
    << Doorway(VAdd(corner, VMul(heading, r[1] - 1)), left(heading), TRUE),
       Doorway(VAdd(VAdd(corner, VMul(heading, size.y + 1)), VMul(right(heading), r[2] - 1)),
               heading, TRUE),
       Doorway(VAdd(VAdd(corner, VMul(right(heading), size.x + 1)), VMul(heading, r[3] - 1)),
               right(heading), TRUE) >>

\* lines 220-228: the three doorways pushed by a room that fits
room_doorways(corner, heading, size, r) ==
    << Doorway(VAdd(corner, VMul(heading, r[1])), left(heading), TRUE),
       Doorway(VAdd(VAdd(corner, VMul(heading, size.y + 1)), VMul(right(heading), r[2])),
               heading, TRUE),
       Doorway(VAdd(VAdd(corner, VMul(right(heading), size.x + 1)), VMul(heading, r[3])),
               right(heading), TRUE) >>

\* line 172
room_corner(entrance, heading, entrance_offset) ==
    VAdd(entrance, VMul(left(heading), entrance_offset))

\* dig_room_tiles filling the first cell of the area as soon as that cell has
\* passed the check, before the rest of the area is looked at
dig_room_tiles_fill_first(m, entrance, heading, size, entrance_offset) ==
    LET corner == room_corner(entrance, heading, entrance_offset)
        chk == room_check(m.grid, corner, entrance, heading, size)
    IN  IF chk.ret = 0
        THEN [ret |-> 0,
              m |-> IF Allocated(corner) /\ (is_wall(m.grid, corner) \/ corner = entrance)
                    THEN fill_tile(m, corner)
                    ELSE m]
        ELSE [ret |-> 1, m |-> apply_writes(m, room_writes(corner, entrance, heading, size))]

\* lines 172-218: the check and, when the room fits, its tiles
dig_room_tiles(m, entrance, heading, size, entrance_offset) ==
    LET corner == room_corner(entrance, heading, entrance_offset)
        chk == room_check(m.grid, corner, entrance, heading, size)
    IN  IF chk.ret = 0
        THEN [ret |-> 0, m |-> [m EXCEPT !.oob = m.oob \cup chk.oob]]
        ELSE [ret |-> 1, m |-> apply_writes(m, room_writes(corner, entrance, heading, size))]

\* the whole call: t is dig_room_tiles of the same arguments
dig_room(t, dw, entrance, heading, size, entrance_offset, r) ==
    IF t.ret = 0
    THEN [ret |-> 0, m |-> t.m, doorways |-> dw, corners |-> {},
          info |-> [NoCall EXCEPT !.op = "room", !.at = "blocked"]]
    ELSE [ret |-> 1, m |-> t.m,
          corners |-> LET ws == room_corners(room_corner(entrance, heading, entrance_offset),
                                             heading, size)
                      IN  {ws[i].v : i \in 1..Len(ws)},
          doorways |-> dw \o room_doorways(room_corner(entrance, heading, entrance_offset),
                                           heading, size, r),
          info |-> [NoCall EXCEPT !.op = "room", !.ret = 1, !.at = "dug", !.size = size,
                                  !.entrance_offset = entrance_offset]]

(***************************************************************************)
(* dig_corridor (lines 233-312).                                           *)
(***************************************************************************)
\* lines 246-262: the feasibility walk from pass ii on.  at is "walked" when
\* the loop is left at its end or by the break, with length and
\* found_intersect as they are then; "bounds" and "flank" are the return 0 of
\* lines 253 and 261
RECURSIVE corridor_check(_, _, _, _, _)
corridor_check(g, entrance, heading, length, ii) ==
    IF ii >= length
    THEN [at |-> "walked", length |-> length, found_intersect |-> FALSE, oob |-> {}]
    ELSE LET pos == VAdd(entrance, VMul(heading, ii + 1))
             left_pos == VAdd(pos, left(heading))
             right_pos == VAdd(pos, right(heading))
             stop(at, o) == [at |-> at, length |-> 0, found_intersect |-> FALSE, oob |-> o]
         IN  IF ~is_in_bounds(pos) THEN stop("bounds", {})
             ELSE IF ~Allocated(pos) THEN stop("bounds", {pos})
             ELSE IF ~is_wall(g, pos)
                  THEN [at |-> "walked", length |-> ii, found_intersect |-> TRUE,
                        oob |-> {}]
             ELSE IF ~Allocated(left_pos) THEN stop("flank", {left_pos})
             ELSE IF ~is_wall(g, left_pos) THEN stop("flank", {})
             ELSE IF ~Allocated(right_pos) THEN stop("flank", {right_pos})
             ELSE IF ~is_wall(g, right_pos) \/ is_permawall(g, pos) THEN stop("flank", {})
             ELSE corridor_check(g, entrance, heading, length, ii + 1)

\* lines 281-295: dig the corridor; pos is the last cell dug
RECURSIVE corridor_dig(_, _, _, _, _)
corridor_dig(m, prev, heading, length, ii) ==
    IF ii >= length THEN [m |-> m, pos |-> prev]
    ELSE LET pos == VAdd(prev, heading)
             m1 == dig_tile(m, pos)
             m2 == fill_tile(m1, VAdd(pos, left(heading)))
             m3 == fill_tile(m2, VAdd(pos, right(heading)))
             next == VAdd(pos, heading)
         IN  IF ~is_in_bounds(next) THEN [m |-> m3, pos |-> pos]
             ELSE IF ~Allocated(next)
                  THEN [m |-> [m3 EXCEPT !.oob = m3.oob \cup {next}], pos |-> pos]
             ELSE IF ~is_wall(m3.grid, next) THEN [m |-> m3, pos |-> pos]
             ELSE corridor_dig(m3, pos, heading, length, ii + 1)

\* corridor_end taking the first branch whatever lies beyond the end
corridor_end_sealed(m, dw, pos, heading) ==
    [m |-> fill_tile(m, pos), doorways |-> Append(dw, Doorway(pos, heading, FALSE))]

\* lines 297-305: seal the end and queue it, or put a doorway at the end
corridor_end(m, dw, pos, heading) ==
    LET next == VAdd(pos, heading)
    IN  IF ~is_in_bounds(next) \/ (Allocated(next) /\ is_wall(m.grid, next))
        THEN [m |-> fill_tile(m, pos), doorways |-> Append(dw, Doorway(pos, heading, FALSE))]
        ELSE [m |-> IF Allocated(next) THEN door_tile(m, pos)
                    ELSE [door_tile(m, pos) EXCEPT !.oob = m.oob \cup {next}],
              doorways |-> dw]

\* what dig_corridor hands back when it returns 0 at the statement at
corridor_fail(m, dw, chk, at) ==
    [ret |-> 0, m |-> [m EXCEPT !.oob = m.oob \cup chk.oob], doorways |-> dw,
     corners |-> {},
     info |-> [NoCall EXCEPT !.op = "corridor", !.at = at, !.length = chk.length,
                             !.found_intersect = chk.found_intersect]]

\* lines 276-311
corridor_commit(m, dw, entrance, heading, chk) ==
    LET d == corridor_dig(m, entrance, heading, chk.length, 0)
        e == corridor_end(d.m, dw, d.pos, heading)
    IN  [ret |-> 1, m |-> e.m, doorways |-> e.doorways, corners |-> {},
         info |-> [NoCall EXCEPT !.op = "corridor", !.ret = 1, !.at = "dug",
                                 !.length = chk.length,
                                 !.found_intersect = chk.found_intersect]]

\* dig_corridor with length<1 for the length<=1 of line 269
dig_corridor_one_cell(m, dw, entrance, heading, drawn) ==
    LET chk == corridor_check(m.grid, entrance, heading, drawn, 0)
    IN  IF chk.at # "walked" THEN corridor_fail(m, dw, chk, chk.at)
        ELSE IF chk.length < 1 THEN corridor_fail(m, dw, chk, "short")
        ELSE IF ~chk.found_intersect THEN corridor_fail(m, dw, chk, "dead_end")
        ELSE corridor_commit(m, dw, entrance, heading, chk)

\* dig_corridor without lines 273-274
dig_corridor_unpruned(m, dw, entrance, heading, drawn) ==
    LET chk == corridor_check(m.grid, entrance, heading, drawn, 0)
    IN  IF chk.at # "walked" THEN corridor_fail(m, dw, chk, chk.at)
        ELSE IF chk.length <= 1 THEN corridor_fail(m, dw, chk, "short")
        ELSE corridor_commit(m, dw, entrance, heading, chk)

\* lines 233-312
dig_corridor(m, dw, entrance, heading, drawn) ==
    LET chk == corridor_check(m.grid, entrance, heading, drawn, 0)
    IN  IF chk.at # "walked" THEN corridor_fail(m, dw, chk, chk.at)
        ELSE IF chk.length <= 1 THEN corridor_fail(m, dw, chk, "short")
        ELSE IF ~chk.found_intersect THEN corridor_fail(m, dw, chk, "dead_end")
        ELSE corridor_commit(m, dw, entrance, heading, chk)

(***************************************************************************)
(* dig_loop (lines 102-125) and dig_random (lines 129-145), as functions   *)
(* of the memory and the list of doorways.                                 *)
(***************************************************************************)
\* lines 104-109: queue the entrance, make it a door between two walls
seed(m, dw) ==
    LET entrance == Vector(size_x \div 2, size_y - 1)
        m1 == door_tile(m, entrance)
        m2 == fill_tile(m1, VAdd(entrance, Vector(1, 0)))
    IN  [m |-> fill_tile(m2, VSub(entrance, Vector(1, 0))),
         doorways |-> Append(dw, Doorway(entrance, Vector(0, -1), TRUE))]

\* erase taking the last doorway off the list, whichever was picked
erase_last(dw, which) == SubSeq(dw, 1, Len(dw) - 1)

\* doorways.erase(doorways.begin() + which)
erase(dw, which) ==
    [i \in 1..(Len(dw) - 1) |-> IF i <= which THEN dw[i] ELSE dw[i + 1]]

\* finalise walling up the doorway that was to become a door
finalise_sealed(m, d) ==
    IF d.has_door THEN fill_tile(m, d.location)
    ELSE IF is_wall(m.grid, d.location) THEN dig_tile(m, d.location)
    ELSE m

\* finalise without lines 121-122
finalise_doors_only(m, d) ==
    IF d.has_door THEN door_tile(m, d.location) ELSE m

\* finalise calling dig_tile whatever the doorway and its cell are
finalise_dug(m, d) == dig_tile(m, d.location)

\* lines 119-122: dig_random returned 1 for the doorway d
finalise(m, d) ==
    IF d.has_door THEN door_tile(m, d.location)
    ELSE IF is_wall(m.grid, d.location) THEN dig_tile(m, d.location)
    ELSE m

(***************************************************************************)
(* print_map (lines 374-390): the characters it hands to putchar, in       *)
(* order.                                                                  *)
(***************************************************************************)
\* tile_chars with no case for TILE_PERMAWALL
tile_chars_no_permawall(t) ==
    CASE t = TILE_UNKNOWN -> << " " >>
      [] t = TILE_FLOOR -> << "." >>
      [] t = TILE_WALL -> << "#" >>
      [] t = TILE_DOOR -> << "+" >>
      [] OTHER -> << >>

\* lines 380-386: the switch; a value that has no case writes nothing
tile_chars(t) ==
    CASE t = TILE_UNKNOWN -> << " " >>
      [] t = TILE_FLOOR -> << "." >>
      [] t = TILE_WALL -> << "#" >>
      [] t = TILE_PERMAWALL -> << "#" >>
      [] t = TILE_DOOR -> << "+" >>
      [] OTHER -> << >>

\* lines 378-388: row yi from column xi on, and the line break
RECURSIVE print_row(_, _, _)
print_row(g, yi, xi) ==
    IF xi >= size_x THEN << "\n" >>
    ELSE tile_chars(g[yi][xi]) \o print_row(g, yi, xi + 1)

\* lines 376-389: the rows from yi on
RECURSIVE print_rows(_, _)
print_rows(g, yi) ==
    IF yi >= size_y THEN << >>
    ELSE print_row(g, yi, 0) \o print_rows(g, yi + 1)

print_map(g) == print_rows(g, 0)

(***************************************************************************)
(* Undefined behaviour.  init_map allocates every row on its own, so an    *)
(* access grid[v.y][v.x] with v.x outside the row lands outside that row's *)
(* array: a write there may have no visible effect, it may hit a cell of   *)
(* another row, or it may stop the run.  The only tile written outside the *)
(* grid is the TILE_WALL of fill_tile (lines 108-109).                     *)
(***************************************************************************)
StrayGrids(m) ==
    {m.grid} \cup {[m.grid EXCEPT ![c.y] = [m.grid[c.y] EXCEPT ![c.x] = TILE_WALL]] :
                      c \in {d \in Cells : \E v \in m.oob : d.y # v.y}}

\* what a step that leaves the memory m may leave behind: m.oob holds the
\* accesses outside the grid made by that step
Outcomes(m) ==
    IF m.oob # {}
    THEN {[grid |-> g, crashed |-> FALSE] : g \in StrayGrids(m)}
            \cup {[grid |-> m.grid, crashed |-> TRUE]}
    ELSE {[grid |-> m.grid, crashed |-> FALSE]}

(***************************************************************************)
(* main (lines 392-408): size_x, size_y from the command line, init_map.   *)
(* Sizes are the positive sizes up to the bounds.                          *)
(***************************************************************************)
Sizes == (1..MaxX) \X (1..MaxY)

InitSized ==
    /\ \E s \in Sizes : size_x = s[1] /\ size_y = s[2]
    /\ grid = init_map(size_x, size_y)
    /\ doorways = <<>>
    /\ pc = "start"
    /\ door = NoDoor
    /\ tries = 0
    /\ call = NoCall
    /\ oob = {}
    /\ plan = <<>>
    /\ out = <<>>
    /\ corners = {}

(***************************************************************************)
(* Those grids are too small for a run to place more than one room,        *)
(* and a grid that holds three rooms has more runs than can be listed.     *)
(* So the model also runs the program on an 11 x 9 grid with the draws of  *)
(* its first passes fixed, and on a 14 x 12 and a 12 x 10 grid with all    *)
(* their passes fixed.  plan lists the passes of the loop of dig_loop that *)
(* are fixed: the index drawn at line 113 and either the draws of a        *)
(* dig_room call that fits at the first try (Room), or the length drawn by *)
(* a dig_corridor call that digs at the first try (Corridor), or nothing   *)
(* more, for a pass in which the generators are called with draws that     *)
(* make all five calls fail (Drop).  When plan is empty every draw is      *)
(* free.                                                                   *)
(***************************************************************************)
Room(which, sx, sy, entrance_offset, r) ==
    [kind |-> "room", which |-> which, size |-> Vector(sx, sy),
     entrance_offset |-> entrance_offset, r |-> r, length |-> 0]
Corridor(which, length) ==
    [kind |-> "corridor", which |-> which, size |-> Vector(0, 0),
     entrance_offset |-> 0, r |-> <<0, 0, 0>>, length |-> length]
Drop(which) ==
    [kind |-> "drop", which |-> which, size |-> Vector(0, 0),
     entrance_offset |-> 0, r |-> <<0, 0, 0>>, length |-> 0]

\* On the 11 x 9 grid the first room spans x = 4..10, y = 4..8; the second is
\* dug from its far wall, with its left wall at x = 6 or x = 5; the third is
\* dug from the left wall of the first and spans x = 0..4, y = 2..8.  The
\* doorways on the right wall of the first two rooms and on the left and far
\* wall of the third lie on the border and are dropped.  On the 20 x 20 grid
\* of the specification's example the entrance is dropped.
\* On the 14 x 12 grid five rooms are dug: x = 4..8, y = 6..11 from the
\* entrance; x = 0..4, y = 4..10 from its left wall; x = 8..12, y = 4..10 from
\* its right wall; x = 1..5, y = 0..4 from the right wall of the second; and
\* x = 7..13, y = 0..4 from the left wall of the third, (7,4) being one of its
\* corners.  Then a corridor is dug from (5,3) to the right into that room,
\* through its wall at (7,3), and a corridor from (7,6) up to (7,4).
\* On the 12 x 10 grid three rooms are dug, x = 1..7, y = 5..9 from the
\* entrance, x = 0..4, y = 1..5 from its far wall and x = 7..11, y = 0..7
\* from its right wall, and then a corridor of three cells from (4,4) to the
\* right, through the wall of the third room at (7,4).
Plans ==
    { [size_x |-> 11, size_y |-> 9, passes |->
         << Room(0, 5, 3, 1, <<1, 4, 1>>), Room(1, 3, 3, 2, <<1, 1, 1>>),
            Room(0, 5, 3, 1, <<1, 1, 1>>), Drop(0), Drop(2), Drop(2), Drop(2) >>],
      [size_x |-> 11, size_y |-> 9, passes |->
         << Room(0, 5, 3, 1, <<1, 4, 1>>), Room(1, 4, 3, 3, <<1, 1, 1>>),
            Room(0, 5, 3, 1, <<1, 1, 1>>), Drop(0), Drop(2), Drop(2), Drop(2) >>],
      [size_x |-> 20, size_y |-> 20, passes |-> << Drop(0) >>],
      [size_x |-> 14, size_y |-> 12, passes |->
         << Room(0, 3, 4, 3, <<2, 3, 3>>), Room(0, 5, 3, 1, <<1, 4, 2>>), Drop(2), Drop(2),
            Room(1, 5, 3, 4, <<2, 3, 2>>), Room(1, 3, 3, 1, <<1, 3, 1>>), Drop(2), Drop(3),
            Drop(2), Drop(2), Room(1, 5, 3, 3, <<1, 5, 2>>), Corridor(1, 3), Drop(2),
            Drop(2), Drop(1), Corridor(0, 3) >>],
      [size_x |-> 12, size_y |-> 10, passes |->
         << Room(0, 5, 3, 5, <<1, 1, 3>>), Drop(0), Room(0, 3, 3, 2, <<1, 2, 1>>),
            Room(0, 6, 3, 6, <<3, 3, 1>>), Drop(4), Drop(1), Corridor(1, 4), Drop(2),
            Drop(1), Drop(0) >>] }

InitPlanned ==
    /\ \E p \in Plans : size_x = p.size_x /\ size_y = p.size_y /\ plan = p.passes
    /\ grid = init_map(size_x, size_y)
    /\ doorways = <<>>
    /\ pc = "start"
    /\ door = NoDoor
    /\ tries = 0
    /\ call = NoCall
    /\ oob = {}
    /\ out = <<>>
    /\ corners = {}

Init == InitSized \/ InitPlanned

\* the pass that is fixed next, and the values a draw from S may take: the
\* planned one while a plan is left
Planned == IF plan = <<>> THEN Drop(0) ELSE Head(plan)
Draw(S, planned) == IF plan = <<>> THEN S ELSE S \cap {planned}

(***************************************************************************)
(* The steps of dig_loop                                                   *)
(***************************************************************************)
\* lines 104-109
Seed ==
    /\ pc = "start"
    /\ LET s == seed([grid |-> grid, oob |-> {}], doorways)
       IN  /\ doorways' = s.doorways
           /\ oob' = oob \cup s.m.oob
           /\ \E o \in Outcomes(s.m) :
                 /\ grid' = o.grid
                 /\ pc' = IF o.crashed THEN "crashed" ELSE "loop"
    /\ UNCHANGED <<size_x, size_y, door, tries, call, plan, out, corners>>

\* lines 111-115: pick a doorway, take it off the list, enter dig_random
Pop ==
    /\ pc = "loop"
    /\ Len(doorways) > 0
    /\ \E which \in Draw(rand_range(0, Len(doorways) - 1), Planned.which) :
          /\ door' = doorways[which + 1]
          /\ doorways' = erase(doorways, which)
    /\ tries' = 0
    /\ call' = NoCall
    /\ pc' = "try"
    /\ UNCHANGED <<size_x, size_y, grid, oob, plan, out, corners>>

\* line 111: the list is empty, dig_loop returns
Done ==
    /\ pc = "loop"
    /\ Len(doorways) = 0
    /\ pc' = "done"
    /\ UNCHANGED <<size_x, size_y, grid, doorways, door, tries, call, oob, plan, out, corners>>

(***************************************************************************)
(* dig_random (lines 129-145): one pass of the retry loop.  res is what    *)
(* the generator returned: on success dig_random returns 1 to line 117,    *)
(* otherwise tries is counted up and the loop goes on or returns 0.        *)
(***************************************************************************)
\* Attempt without the return 1 of lines 141-142: the loop goes on after a
\* call that succeeded
Attempt_no_return(res) ==
    /\ call' = res.info
    /\ doorways' = res.doorways
    /\ oob' = oob \cup res.m.oob
    /\ \E o \in Outcomes(res.m) :
          /\ grid' = o.grid
          /\ IF o.crashed THEN pc' = "crashed" /\ tries' = tries
             ELSE /\ tries' = tries + 1
                  /\ pc' = IF tries + 1 < max_tries THEN "try" ELSE "loop"
    /\ plan' = IF plan # <<>> /\ pc' # "try" THEN Tail(plan) ELSE plan
    /\ corners' = corners \cup res.corners
    /\ UNCHANGED <<size_x, size_y, door, out>>

Attempt(res) ==
    /\ call' = res.info
    /\ doorways' = res.doorways
    /\ oob' = oob \cup res.m.oob
    /\ \E o \in Outcomes(res.m) :
          /\ grid' = o.grid
          /\ IF o.crashed THEN pc' = "crashed" /\ tries' = tries
             ELSE IF res.ret # 0 THEN pc' = "finalise" /\ tries' = tries
             ELSE /\ tries' = tries + 1
                  /\ pc' = IF tries + 1 < max_tries THEN "try" ELSE "loop"
    /\ plan' = IF plan # <<>> /\ pc' # "try" THEN Tail(plan) ELSE plan
    /\ corners' = corners \cup res.corners
    /\ UNCHANGED <<size_x, size_y, door, out>>

\* lines 168-170: the draws of size.x, size.y and entrance_offset
RoomDraws ==
    {d \in rand_range(3, 6) \X rand_range(3, 6) \X rand_range(1, 6) :
        d[3] \in rand_range(1, d[1])}

\* case 0: dig_room with its draws (lines 168-170, 221-227): one step for
\* each result the draws give.  A room that does not fit draws nothing more.
TryRoom ==
    /\ pc = "try"
    /\ IF plan = <<>> THEN TRUE ELSE Planned.kind \in {"drop", "room"}
    /\ LET m == [grid |-> grid, oob |-> {}]
           Free == IF plan # <<>> /\ Planned.kind = "room"
                   THEN {<<Planned.size.x, Planned.size.y, Planned.entrance_offset>>}
                   ELSE RoomDraws
           Tiles == {<<d, dig_room_tiles(m, door.location, door.heading,
                                         Vector(d[1], d[2]), d[3])>> : d \in Free}
           Called(p, r) == dig_room(p[2], doorways, door.location, door.heading,
                                    Vector(p[1][1], p[1][2]), p[1][3], r)
           Blocked == {Called(p, <<1, 1, 1>>) : p \in {q \in Tiles : q[2].ret = 0}}
           Fitting == IF plan # <<>> /\ Planned.kind # "room" THEN {}
                      ELSE {p \in Tiles : p[2].ret # 0}
           Dug == UNION {{Called(p, r) :
                            r \in Draw(rand_range(1, p[1][2]) \X rand_range(1, p[1][1])
                                         \X rand_range(1, p[1][2]), Planned.r)} :
                         p \in Fitting}
       IN  \E res \in Blocked \cup Dug : Attempt(res)

\* case 1: dig_corridor with its draw (line 235): one step for each result
\* the lengths that may be drawn give
TryCorridor ==
    /\ pc = "try"
    /\ IF plan = <<>> THEN TRUE ELSE Planned.kind \in {"drop", "corridor"}
    /\ \E res \in {dig_corridor([grid |-> grid, oob |-> {}], doorways,
                                door.location, door.heading, length) :
                      length \in IF plan # <<>> /\ Planned.kind = "corridor"
                                 THEN Draw(rand_range(2, 6), Planned.length)
                                 ELSE rand_range(2, 6)} :
          /\ IF plan = <<>> THEN TRUE ELSE (res.ret = 0) = (Planned.kind = "drop")
          /\ Attempt(res)

\* lines 117-123: dig_random returned 1
Finalise ==
    /\ pc = "finalise"
    /\ LET m == finalise([grid |-> grid, oob |-> {}], door)
       IN  /\ oob' = oob \cup m.oob
           /\ \E o \in Outcomes(m) :
                 /\ grid' = o.grid
                 /\ pc' = IF o.crashed THEN "crashed" ELSE "loop"
    /\ UNCHANGED <<size_x, size_y, doorways, door, tries, call, plan, out, corners>>

\* main, line 406: dig_loop has returned, the map is written out
PrintMap ==
    /\ pc = "done"
    /\ out' = print_map(grid)
    /\ pc' = "printed"
    /\ UNCHANGED <<size_x, size_y, grid, doorways, door, tries, call, oob, plan, corners>>

Next == Seed \/ Pop \/ Done \/ PrintMap \/ Finalise \/ TryCorridor \/ TryRoom

Spec == Init /\ [][Next]_vars

\* the program is one thread that runs until dig_loop returns or the run is
\* stopped: it takes its next step whenever it has one
LiveSpec == Spec /\ WF_vars(Next)

(***************************************************************************)
(* class Vector on its own (lines 48-69): a position and a heading, as     *)
(* dig_room and dig_corridor keep them, on an empty grid of the largest    *)
(* size.  The heading is turned with left() and right() and the position   *)
(* moved one step ahead with +=, in any order.  doorways holds the         *)
(* position and heading at the start, door those reached, and tries the    *)
(* number of quarter turns to the right made so far, counted modulo 4.     *)
(***************************************************************************)
\* the headings of the program: Vector(0,-1) at line 105 and what left() and
\* right() make of it
Directions == {Vector(0, -1), Vector(1, 0), Vector(0, 1), Vector(-1, 0)}

VectorInit ==
    /\ size_x = MaxX
    /\ size_y = MaxY
    /\ grid = init_map(size_x, size_y)
    /\ \E l \in Cells, d \in Directions : door = Doorway(l, d, TRUE)
    /\ doorways = << door >>
    /\ pc = "start"
    /\ tries = 0
    /\ call = NoCall
    /\ oob = {}
    /\ plan = <<>>
    /\ out = <<>>
    /\ corners = {}

\* heading.left()
TurnLeft ==
    /\ door' = [door EXCEPT !.heading = left(door.heading)]
    /\ tries' = (tries + 3) % 4
    /\ UNCHANGED <<size_x, size_y, grid, doorways, pc, call, oob, plan, out, corners>>

\* heading.right()
TurnRight ==
    /\ door' = [door EXCEPT !.heading = right(door.heading)]
    /\ tries' = (tries + 1) % 4
    /\ UNCHANGED <<size_x, size_y, grid, doorways, pc, call, oob, plan, out, corners>>

\* pos += heading, while that stays on the grid
StepAhead ==
    /\ is_in_bounds_or_border(VAdd(door.location, door.heading))
    /\ door' = [door EXCEPT !.location = VAdd(door.location, door.heading)]
    /\ UNCHANGED <<size_x, size_y, grid, doorways, pc, tries, call, oob, plan, out, corners>>

VectorNext == TurnLeft \/ TurnRight \/ StepAhead

VectorSpec == VectorInit /\ [][VectorNext]_vars

TypeOK ==
    /\ pc \in {"start", "loop", "try", "finalise", "done", "printed", "crashed"}
    /\ tries \in 0..max_tries

(***************************************************************************)
(* Vocabulary of the properties                                            *)
(***************************************************************************)
\* line 104: the entrance of the map
Entrance == Vector(size_x \div 2, size_y - 1)

Border(c) == c.x = 0 \/ c.x = size_x - 1 \/ c.y = 0 \/ c.y = size_y - 1

Open(g, c) == tile(g, c) = TILE_FLOOR \/ tile(g, c) = TILE_DOOR

\* the cell k steps ahead of the doorway dig_random was entered with
Ahead(k) == VAdd(door.location, VMul(door.heading, k))

Neighbours(c) ==
    {Vector(c.x + 1, c.y), Vector(c.x - 1, c.y), Vector(c.x, c.y + 1), Vector(c.x, c.y - 1)}

\* the open cells joined to those of seen by paths of orthogonally adjacent
\* open cells; frontier are the cells of seen whose neighbours are yet to be
\* looked at
RECURSIVE Reach(_, _, _)
Reach(g, seen, frontier) ==
    IF frontier = {} THEN seen
    ELSE LET new == {n \in UNION {Neighbours(c) : c \in frontier} :
                        Allocated(n) /\ n \notin seen /\ Open(g, n)}
         IN  Reach(g, seen \cup new, new)

Joined(g) == IF Open(g, Entrance) THEN Reach(g, {Entrance}, {Entrance}) ELSE {}

\* the state between Seeding and the first pop
Seeded == pc = "loop" /\ door = NoDoor

(***************************************************************************)
(* C1: the border                                                          *)
(***************************************************************************)
\* C1 as stated: in every state from Seeding through Done, on every grid, no
\* cell with x in {0, size_x-1} or y in {0, size_y-1} is Floor or Door, and
\* when dig_loop has returned every such cell is Wall or Permawall.
C1_BorderNeverOpen ==
    pc # "start" =>
       /\ \A c \in Cells : Border(c) => ~Open(grid, c)
       /\ pc = "done" =>
             \A c \in Cells : Border(c) => tile(grid, c) \in {TILE_WALL, TILE_PERMAWALL}

\* C1 as it holds: in every state from Seeding through Done, on every grid,
\* the entrance (size_x/2, size_y-1), a border cell, is Door, and every other
\* border cell is Unknown, Wall or Permawall, so never Floor or Door.
C1_BorderClosedButEntrance ==
    pc # "start" =>
       /\ tile(grid, Entrance) = TILE_DOOR
       /\ \A c \in Cells :
             Border(c) /\ c # Entrance =>
                tile(grid, c) \in {TILE_UNKNOWN, TILE_WALL, TILE_PERMAWALL}

\* C1, its case: dig_loop has returned from a run that dug up to the border,
\* leaving corners of rooms on it, and that left border cells untouched
C1_RoomsOnBorder ==
    /\ pc = "done"
    /\ \E c \in Cells : Border(c) /\ tile(grid, c) = TILE_PERMAWALL
    /\ \E c \in Cells : Border(c) /\ tile(grid, c) = TILE_UNKNOWN
    /\ \E c \in Cells : tile(grid, c) = TILE_FLOOR

(***************************************************************************)
(* C2: Permawall                                                           *)
(***************************************************************************)
\* C2 as stated: no step of dig_loop, dig_room or dig_corridor changes a cell
\* that is Permawall: a cell that is Permawall before the step is Permawall
\* after it.
C2_PermawallAbsorbing ==
    [][\A c \in Cells :
          tile(grid, c) = TILE_PERMAWALL => tile(grid', c) = TILE_PERMAWALL]_vars

C4_NoOutOfBounds == oob = {}

(***************************************************************************)
(* C5: connectivity                                                        *)
(***************************************************************************)
\* C5: between two passes of the loop of dig_loop and when dig_loop has
\* returned, every Floor or Door cell is joined to the entrance
\* (size_x/2, size_y-1) by a path of orthogonally adjacent Floor or Door cells.
C5_Connected ==
    pc \in {"loop", "done"} =>
       \A c \in Cells : Open(grid, c) => c \in Joined(grid)

\* C5, its case: a pass has ended in which a corridor was dug from one room
\* to another and its doorway opened
C5_CorridorJoined ==
    /\ pc = "loop"
    /\ call.op = "corridor"
    /\ call.ret = 1
    /\ tile(grid, door.location) = TILE_DOOR

(***************************************************************************)
(* C6: dig_room that returns 0                                             *)
(***************************************************************************)
\* C6: whatever the grid, the doorway and the draws, a call of dig_room that
\* returns 0 leaves every cell of the grid and the list of doorways as they
\* were before the call.
C6_RoomAtomic ==
    [][(pc = "try" /\ call'.op = "room" /\ call'.ret = 0) =>
          (grid' = grid /\ doorways' = doorways)]_vars

\* C6, its case: dig_room has returned 0 on a grid that holds a room, from a
\* doorway in the wall of that room
C6_RoomRejected ==
    /\ call.op = "room"
    /\ call.ret = 0
    /\ \E c \in Cells : tile(grid, c) = TILE_FLOOR
    /\ door.location # Entrance

(***************************************************************************)
(* C7: short corridors                                                     *)
(***************************************************************************)
\* the walk of lines 246-262 ends with a length of 0 or 1 whatever length in
\* 2..6 was drawn: the first cell ahead is inside the border and not
\* wall-like, or it passes the pass of the loop and the second is inside the
\* border and not wall-like
ShortWalk ==
    /\ is_in_bounds(Ahead(1))
    /\ \/ ~is_wall(grid, Ahead(1))
       \/ /\ is_wall(grid, VAdd(Ahead(1), left(door.heading)))
          /\ is_wall(grid, VAdd(Ahead(1), right(door.heading)))
          /\ ~is_permawall(grid, Ahead(1))
          /\ is_in_bounds(Ahead(2))
          /\ ~is_wall(grid, Ahead(2))

\* C7: whatever the grid, the doorway and the length drawn, a call of
\* dig_corridor whose walk ends with a length of at most 1 returns 0 and
\* leaves the grid and the list of doorways as they were; and a call that
\* returns 1 has turned at least 2 wall-like cells into Floor or Door.
C7_ShortCorridorRejected ==
    [][(pc = "try" /\ call'.op = "corridor") =>
          /\ (ShortWalk \/ (call'.at \notin {"bounds", "flank"} /\ call'.length <= 1)) =>
                (call'.ret = 0 /\ grid' = grid /\ doorways' = doorways)
          /\ call'.ret = 1 =>
                Cardinality({c \in Cells : is_wall(grid, c) /\ Open(grid', c)}) >= 2]_vars

\* C7, its case: dig_corridor has returned 0 at line 270, its walk having met
\* a Floor or Door cell after one cell of wall
C7_OneCellCorridor ==
    /\ call.op = "corridor"
    /\ call.at = "short"
    /\ call.length = 1
    /\ call.found_intersect
    /\ ShortWalk

(***************************************************************************)
(* C8: dead ends                                                           *)
(***************************************************************************)
\* C8: a call of dig_corridor returns 1 only if its walk met, within the
\* length drawn, a centre cell that is Floor or Door; a call whose walk met
\* none returns 0 and leaves the grid and the list of doorways as they were.
C8_DeadEndsPruned ==
    [][(pc = "try" /\ call'.op = "corridor") =>
          /\ call'.ret = 1 =>
                /\ call'.found_intersect
                /\ call'.length + 1 <= 6
                /\ Open(grid, Ahead(call'.length + 1))
          /\ (~call'.found_intersect
                \/ ~\E k \in 1..6 : is_in_bounds(Ahead(k)) /\ Open(grid, Ahead(k))) =>
                (call'.ret = 0 /\ grid' = grid /\ doorways' = doorways)]_vars

\* C8, its case: dig_corridor has returned 0 at line 274, its walk having
\* passed over 2 cells or more of wall and met no Floor or Door cell
C8_DeadEnd ==
    /\ call.op = "corridor"
    /\ call.at = "dead_end"
    /\ call.length >= 2
    /\ ~call.found_intersect

(***************************************************************************)
(* C9: Seeding                                                             *)
(***************************************************************************)
\* C9 as stated: after Seeding and before the first pop the entrance
\* (size_x/2, size_y-1) is Door, its left and right neighbours
\* (size_x/2 - 1, size_y-1) and (size_x/2 + 1, size_y-1) are cells that are
\* Wall, every other cell is Unknown, and the list holds the one doorway
\* (entrance, (0,-1), has_door); on the 20 x 20 grid these cells are (10,19),
\* (9,19) and (11,19).
C9_SeedingPostcondition ==
    Seeded =>
       LET l == Vector(size_x \div 2 - 1, size_y - 1)
           r == Vector(size_x \div 2 + 1, size_y - 1)
       IN  /\ tile(grid, Entrance) = TILE_DOOR
           /\ Allocated(l) /\ tile(grid, l) = TILE_WALL
           /\ Allocated(r) /\ tile(grid, r) = TILE_WALL
           /\ \A c \in Cells \ {Entrance, l, r} : tile(grid, c) = TILE_UNKNOWN
           /\ doorways = << Doorway(Entrance, Vector(0, -1), TRUE) >>
           /\ (size_x = 20 /\ size_y = 20) =>
                 /\ grid[19][10] = TILE_DOOR
                 /\ grid[19][9] = TILE_WALL
                 /\ grid[19][11] = TILE_WALL

(***************************************************************************)
(* C10: the list of doorways                                               *)
(***************************************************************************)
\* C10: a pass of the loop of dig_loop starts on a list that is not empty and
\* takes exactly one doorway off it, at an index of the list, which is the
\* doorway it works on; a generator call that returns 0 leaves the list as
\* it is; one that returns 1 leaves the doorways of the list in place and
\* adds its own at the end, 3 for a room and at most 1 for a corridor; and
\* the rest of the pass leaves the list as it is.
C10_WorklistAccounting ==
    [][/\ (pc = "loop" /\ pc' = "try") =>
             /\ Len(doorways) > 0
             /\ \E i \in 1..Len(doorways) :
                   /\ door' = doorways[i]
                   /\ doorways' = SubSeq(doorways, 1, i - 1)
                                     \o SubSeq(doorways, i + 1, Len(doorways))
       /\ (pc = "loop" /\ pc' = "done") => (doorways = <<>> /\ doorways' = <<>>)
       /\ (pc = "try" /\ call'.ret = 0) => doorways' = doorways
       /\ (pc = "try" /\ call'.ret = 1) =>
             /\ Len(doorways') >= Len(doorways)
             /\ SubSeq(doorways', 1, Len(doorways)) = doorways
             /\ call'.op = "room" => Len(doorways') = Len(doorways) + 3
             /\ call'.op = "corridor" => Len(doorways') <= Len(doorways) + 1
       /\ pc = "finalise" => doorways' = doorways]_vars

\* C10, its case: a doorway was taken from the middle of a list of three and
\* the room dug from it has added its three doorways to the two left
C10_RoomAddedThree ==
    /\ pc = "finalise"
    /\ call.op = "room"
    /\ Len(doorways) = 5
    /\ \A i \in 1..5 : doorways[i] # door

(***************************************************************************)
(* C11: rooms near the border                                              *)
(***************************************************************************)
\* the cells of the area of lines 176-186 for the draws size and
\* entrance_offset, from the doorway dig_random was entered with
RoomRect(size, entrance_offset) ==
    {RoomPos(room_corner(door.location, door.heading, entrance_offset), door.heading,
             size.x + 2, k) : k \in 0..((size.x + 2) * (size.y + 2) - 1)}

\* the number of rows of the grid from the row of the doorway on, along its
\* heading
RowsAhead == Cardinality({k \in 0..(size_x + size_y) : Allocated(Ahead(k))})

\* what dig_room returns and leaves behind for the draws d = (size.x, size.y,
\* entrance_offset), called in the state as it is
RoomCall(d) ==
    dig_room(dig_room_tiles([grid |-> grid, oob |-> {}], door.location, door.heading,
                            Vector(d[1], d[2]), d[3]),
             doorways, door.location, door.heading, Vector(d[1], d[2]), d[3], <<1, 1, 1>>)

\* C11: whenever dig_random is about to call a generator, for every draw of
\* size.x, size.y in 3..6 and entrance_offset in 1..size.x: if fewer than 5
\* rows of the grid lie from the row of the entrance on along the heading, or
\* the (size.x+2) x (size.y+2) area of the draw has a cell outside the grid,
\* dig_room returns 0, leaves the grid and the list of doorways as they are
\* and touches nothing outside the grid.
C11_BorderRoomsRejected ==
    pc = "try" =>
       \A d \in RoomDraws :
          (RowsAhead < 5 \/ \E c \in RoomRect(Vector(d[1], d[2]), d[3]) : ~Allocated(c)) =>
             LET res == RoomCall(d)
             IN  /\ res.ret = 0
                 /\ res.m.grid = grid
                 /\ res.m.oob = {}
                 /\ res.doorways = doorways

\* C11, its case: dig_room has returned 0 from a doorway with fewer than 5
\* rows ahead, on a grid where the entrance of the map has a room
C11_TooFewRows ==
    /\ pc = "try"
    /\ call.op = "room"
    /\ call.ret = 0
    /\ RowsAhead < 5
    /\ door.location # Entrance
    /\ \E c \in Cells : tile(grid, c) = TILE_FLOOR

(***************************************************************************)
(* C15: the map as text                                                    *)
(***************************************************************************)
\* C15: for every grid a run passes through, print_map writes size_y lines
\* of size_x characters, each followed by one line break: the character at
\* position x of line y is that of the cell in column x of row y, ' ' for
\* Unknown, '.' for Floor, '#' for Wall and for Permawall, '+' for Door; and
\* this is what main has written when it has called print_map.
C15_GridToText ==
    LET o == print_map(grid)
        w == size_x + 1
        ch(t) == CASE t = TILE_UNKNOWN -> " "
                   [] t = TILE_FLOOR -> "."
                   [] t = TILE_WALL -> "#"
                   [] t = TILE_PERMAWALL -> "#"
                   [] t = TILE_DOOR -> "+"
    IN  /\ Len(o) = size_y * w
        /\ \A y \in 0..(size_y - 1) :
              /\ \A x \in 0..(size_x - 1) : o[y * w + x + 1] = ch(grid[y][x])
              /\ o[y * w + size_x + 1] = "\n"
        /\ pc = "printed" => out = o

\* C15, its case: main has written out a map that holds tiles of all five
\* kinds
C15_AllTilesPrinted ==
    /\ pc = "printed"
    /\ \A t \in {TILE_UNKNOWN, TILE_FLOOR, TILE_WALL, TILE_PERMAWALL, TILE_DOOR} :
          \E c \in Cells : tile(grid, c) = t
    /\ Len(out) = size_y * (size_x + 1)

(***************************************************************************)
(* C16: the retries of dig_random                                          *)
(***************************************************************************)
\* C16: a call of dig_random starts with no try made and makes its first
\* generator call; every generator call it makes is at most the fifth; after
\* a call that returned 1 it makes no other and returns 1, and it returns 1
\* in no other way; a call that returned 0 leaves the grid, the list of
\* doorways and the doorway worked on as they were and is followed by the
\* next call while fewer than 5 were made; after the fifth dig_random returns
\* 0, with the doorway not put back on the list.
C16_BoundedRetry ==
    [][/\ (pc = "loop" /\ pc' = "try") => tries' = 0
       /\ pc = "try" =>
             /\ tries + 1 <= 5
             /\ call'.op \in {"room", "corridor"}
             /\ call'.ret = 1 => (pc' = "finalise" /\ tries' = tries)
             /\ call'.ret = 0 =>
                   /\ tries' = tries + 1
                   /\ grid' = grid /\ doorways' = doorways /\ door' = door
                   /\ pc' = IF tries + 1 < 5 THEN "try" ELSE "loop"
       /\ pc' = "finalise" => (pc = "try" /\ call'.ret = 1)
       /\ (pc = "try" /\ pc' = "loop") => (tries' = 5 /\ call'.ret = 0)]_vars

\* C16, its case: five generator calls have failed for a doorway in the wall
\* of a room, and dig_random has returned 0
C16_Dropped ==
    /\ pc = "loop"
    /\ tries = 5
    /\ call.ret = 0
    /\ door.location # Entrance
    /\ \E c \in Cells : tile(grid, c) = TILE_FLOOR

(***************************************************************************)
(* C17: a room that was dug                                                *)
(***************************************************************************)
\* the cell of the area that lies i steps to the right of and j steps ahead
\* of corner, for the doorway dig_random was entered with
RoomCell(corner, i, j) ==
    VAdd(VAdd(corner, VMul(right(door.heading), i)), VMul(door.heading, j))

\* C17: after a call of dig_room that returned 1 with the draws size and
\* entrance_offset, corner being entrance + left(heading)*entrance_offset:
\* the four corners of the (size.x+2) x (size.y+2) area are Permawall, the
\* other cells of its outer ring are Wall but for the entrance, which is
\* Door, its size.x*size.y inner cells are Floor, the cells outside it are
\* as they were, and the list has three more doorways, all to become doors:
\* on the left wall heading left, on the far wall heading ahead, on the
\* right wall heading right, none on a corner.
C17_RoomCommitted ==
    [][(pc = "try" /\ call'.op = "room" /\ call'.ret = 1) =>
          LET sx == call'.size.x
              sy == call'.size.y
              h == door.heading
              corner == VAdd(door.location, VMul(left(h), call'.entrance_offset))
              n == Len(doorways)
          IN  /\ sx \in 3..6 /\ sy \in 3..6 /\ call'.entrance_offset \in 1..sx
              /\ \A i \in 0..(sx + 1), j \in 0..(sy + 1) :
                    LET c == RoomCell(corner, i, j)
                    IN  /\ Allocated(c)
                        /\ tile(grid', c) =
                              IF i \in {0, sx + 1} /\ j \in {0, sy + 1} THEN TILE_PERMAWALL
                              ELSE IF c = door.location THEN TILE_DOOR
                              ELSE IF i \in {0, sx + 1} \/ j \in {0, sy + 1} THEN TILE_WALL
                              ELSE TILE_FLOOR
              /\ door.location \in {RoomCell(corner, i, 0) : i \in 1..sx}
              /\ \A c \in Cells :
                    c \notin {RoomCell(corner, i, j) : i \in 0..(sx + 1), j \in 0..(sy + 1)} =>
                       tile(grid', c) = tile(grid, c)
              /\ Len(doorways') = n + 3
              /\ SubSeq(doorways', 1, n) = doorways
              /\ \A k \in 1..3 : doorways'[n + k].has_door
              /\ doorways'[n + 1].heading = left(h)
              /\ doorways'[n + 1].location \in {RoomCell(corner, 0, j) : j \in 1..sy}
              /\ doorways'[n + 2].heading = h
              /\ doorways'[n + 2].location \in {RoomCell(corner, i, sy + 1) : i \in 1..sx}
              /\ doorways'[n + 3].heading = right(h)
              /\ doorways'[n + 3].location \in {RoomCell(corner, sx + 1, j) : j \in 1..sy}]_vars

\* C17, its case: a third room was dug, its ring lying over the wall of an
\* older room: of the 12 corners of the three rooms fewer than 10 cells are
\* Permawall
C17_RoomOverWall ==
    /\ pc = "finalise"
    /\ call.op = "room"
    /\ call.ret = 1
    /\ door.location # Entrance
    /\ Cardinality({c \in Cells : tile(grid, c) = TILE_FLOOR}) >= 27
    /\ Cardinality({c \in Cells : tile(grid, c) = TILE_PERMAWALL}) < 10

(***************************************************************************)
(* C18: a corridor that was dug                                            *)
(***************************************************************************)
\* C18: after a call of dig_corridor that returned 1 with the length L its
\* walk ended with: the cells 1..L-1 steps ahead of the entrance are Floor;
\* the cells to the left and to the right of the cells 1..L steps ahead are
\* Wall; if the cell L+1 steps ahead is outside is_in_bounds or wall-like,
\* the cell L steps ahead is Wall and the list has one more doorway, that
\* cell with the heading of the corridor and not to become a door, and
\* otherwise that cell is Door and the list is as it was; and every other
\* cell is as it was.
C18_CorridorCommitted ==
    [][(pc = "try" /\ call'.op = "corridor" /\ call'.ret = 1) =>
          LET L == call'.length
              h == door.heading
              last == Ahead(L)
              beyond == Ahead(L + 1)
              flanks == UNION {{VAdd(Ahead(k), left(h)), VAdd(Ahead(k), right(h))} :
                                  k \in 1..L}
          IN  /\ \A k \in 1..(L - 1) : tile(grid', Ahead(k)) = TILE_FLOOR
              /\ \A c \in flanks : Allocated(c) /\ tile(grid', c) = TILE_WALL
              /\ IF ~is_in_bounds(beyond) \/ is_wall(grid', beyond)
                 THEN /\ tile(grid', last) = TILE_WALL
                      /\ doorways' = Append(doorways, Doorway(last, h, FALSE))
                 ELSE /\ tile(grid', last) = TILE_DOOR
                      /\ doorways' = doorways
              /\ \A c \in Cells :
                    c \notin flanks \cup {Ahead(k) : k \in 1..L} =>
                       tile(grid', c) = tile(grid, c)]_vars

\* C18, its case: a corridor of 2 cells or more was dug up to a Floor or Door
\* cell, and its last cell is a Door
C18_CorridorDug ==
    /\ pc = "finalise"
    /\ call.op = "corridor"
    /\ call.ret = 1
    /\ call.length >= 2
    /\ tile(grid, Ahead(call.length)) = TILE_DOOR
    /\ Open(grid, Ahead(call.length + 1))

(***************************************************************************)
(* C19: the doorway after dig_random                                       *)
(***************************************************************************)
\* C19: when dig_random has returned 1, lines 119-122 make the cell of the
\* doorway a Door if the doorway is to become a door; if it is not, they make
\* the cell Floor when the generator left it wall-like and leave it as the
\* generator left it otherwise; no other cell changes.  The same holds of
\* lines 119-122 for a doorway that is not to become a door at any cell of
\* the grid.  When dig_random returns 0 no cell of the grid has changed.
C19_OriginFinalised ==
    [][/\ pc = "finalise" =>
             /\ tile(grid', door.location) =
                   IF door.has_door THEN TILE_DOOR
                   ELSE IF is_wall(grid, door.location) THEN TILE_FLOOR
                   ELSE tile(grid, door.location)
             /\ \A c \in Cells \ {door.location} : tile(grid', c) = tile(grid, c)
             /\ \A c \in Cells :
                   LET m == finalise([grid |-> grid, oob |-> {}],
                                     Doorway(c, door.heading, FALSE))
                   IN  /\ m.oob = {}
                       /\ tile(m.grid, c) = IF is_wall(grid, c) THEN TILE_FLOOR
                                            ELSE tile(grid, c)
                       /\ \A b \in Cells \ {c} : tile(m.grid, b) = tile(grid, b)
       /\ (pc = "try" /\ call'.ret = 0) => grid' = grid
       /\ (pc = "try" /\ pc' = "loop") => (call'.ret = 0 /\ grid' = grid)]_vars

\* C19, its case: a corridor was dug from a doorway in the wall of a room,
\* and the cell of the doorway, Wall after the corridor was dug, is now Door
C19_DoorOpened ==
    /\ pc = "loop"
    /\ call.op = "corridor"
    /\ call.ret = 1
    /\ door.has_door
    /\ tile(grid, door.location) = TILE_DOOR
    /\ tile(grid, Ahead(1)) = TILE_FLOOR

(***************************************************************************)
(* C20: doors next to doors                                                *)
(***************************************************************************)
\* C20 as stated: between two passes of the loop of dig_loop and when it has
\* returned, no two orthogonally adjacent cells are both Door.
C20_NoAdjacentDoors ==
    pc \in {"loop", "done"} =>
       \A c \in Cells :
          tile(grid, c) = TILE_DOOR =>
             \A n \in Neighbours(c) : Allocated(n) => tile(grid, n) # TILE_DOOR

(***************************************************************************)
(* C14: the corners of rooms                                               *)
(***************************************************************************)
\* C14 as stated: a cell permawall_tile has been called on, a corner of a
\* room that was dug, is not Floor and not Door in any later state of the
\* run.
C14_CornersStaySealed == \A c \in corners : ~Open(grid, c)

(***************************************************************************)
(* C13: the cells next to a door                                           *)
(***************************************************************************)
\* the cell c has a neighbour to its left or right, or above or below it,
\* that is in the grid and not wall-like
Horizontal(g, c) ==
    \E n \in {Vector(c.x - 1, c.y), Vector(c.x + 1, c.y)} : Allocated(n) /\ ~is_wall(g, n)
Vertical(g, c) ==
    \E n \in {Vector(c.x, c.y - 1), Vector(c.x, c.y + 1)} : Allocated(n) /\ ~is_wall(g, n)

\* exactly one of the two axes of c has a neighbour that is not wall-like,
\* so the neighbours of c in the grid on the other axis are all wall-like
OneAxisOpen(g, c) == Horizontal(g, c) # Vertical(g, c)

\* the cells door_tile is called on in the step that is taken: the entrance
\* of the map (line 107), the entrance of a room (line 218), the last cell of
\* a corridor (line 304), the cell of the doorway (line 120); and any other
\* cell that is Door after the step and was not before
DoorsSet ==
    (IF pc = "start" THEN {Entrance} ELSE {})
      \cup (IF pc = "try" /\ call'.op = "room" /\ call'.ret = 1
            THEN {door.location} ELSE {})
      \cup (IF pc = "try" /\ call'.op = "corridor" /\ call'.ret = 1
            THEN {Ahead(call'.length)} \cap {c \in Cells : tile(grid', c) = TILE_DOOR}
            ELSE {})
      \cup (IF pc = "finalise" /\ door.has_door THEN {door.location} ELSE {})
      \cup {c \in Cells : tile(grid', c) = TILE_DOOR /\ tile(grid, c) # TILE_DOOR}

\* C13 as stated: whenever a cell is made a Door, by Seeding, by dig_room, by
\* dig_corridor or by lines 119-120 of dig_loop, exactly one of its two axes
\* has a neighbour that is not wall-like, and its neighbours in the grid on
\* the other axis are all wall-like.
C13_DoorOnOneAxis ==
    [][\A c \in DoorsSet : tile(grid', c) = TILE_DOOR /\ OneAxisOpen(grid', c)]_vars

\* C13 as it holds: whenever a cell is made a Door by dig_room, by
\* dig_corridor or by lines 119-120 of dig_loop, exactly one of its two axes
\* has a neighbour that is not wall-like, and its neighbours in the grid on
\* the other axis are all wall-like; when Seeding makes the entrance of the
\* map a Door, all its neighbours in the grid are wall-like.
C13_DoorOnOneAxisButSeed ==
    [][\A c \in DoorsSet :
          /\ tile(grid', c) = TILE_DOOR
          /\ IF pc = "start"
             THEN ~Horizontal(grid', c) /\ ~Vertical(grid', c)
             ELSE OneAxisOpen(grid', c)]_vars

\* C13, its case: a room was dug from a doorway in the wall of an older
\* room: its entrance is a Door with Floor ahead and behind and walls at
\* both sides
C13_DoorBetweenRooms ==
    /\ pc = "finalise"
    /\ call.op = "room"
    /\ call.ret = 1
    /\ door.location # Entrance
    /\ tile(grid, door.location) = TILE_DOOR
    /\ tile(grid, Ahead(1)) = TILE_FLOOR
    /\ tile(grid, VSub(door.location, door.heading)) = TILE_FLOOR
    /\ is_wall(grid, VAdd(door.location, left(door.heading)))
    /\ is_wall(grid, VAdd(door.location, right(door.heading)))

OpenCount(g) == Cardinality({c \in Cells : Open(g, c)})

\* C21: from Seeding on, in every step of dig_loop, and so from one pass of
\* its loop to the next: a cell that is Floor or Door stays Floor or Door, a
\* Door stays a Door, and a cell that is not Unknown does not become
\* Unknown; a generator call that returns 1 leaves more Floor and Door cells
\* than there were, lines 119-122 leave no fewer, and a call that returns 0
\* leaves the grid as it was, so a pass in which dig_random returns 1 ends
\* with more Floor and Door cells than it began with and a pass in which it
\* returns 0 with the same.
C21_CarvingMonotone ==
    [][pc # "start" =>
          /\ \A c \in Cells :
                /\ Open(grid, c) => Open(grid', c)
                /\ tile(grid, c) = TILE_DOOR => tile(grid', c) = TILE_DOOR
                /\ tile(grid, c) # TILE_UNKNOWN => tile(grid', c) # TILE_UNKNOWN
          /\ (pc = "try" /\ call'.ret = 1) => OpenCount(grid') > OpenCount(grid)
          /\ (pc = "try" /\ call'.ret = 0) => grid' = grid
          /\ pc = "finalise" => OpenCount(grid') >= OpenCount(grid)
          /\ pc \in {"loop", "done"} => grid' = grid]_vars

\* C21, its case: a pass has ended in which a room was dug next to older
\* rooms, over cells of their walls
C21_GrownOverWalls ==
    /\ pc = "loop"
    /\ call.op = "room"
    /\ call.ret = 1
    /\ door.location # Entrance
    /\ tile(grid, door.location) = TILE_DOOR
    /\ OpenCount(grid) >= 27
    /\ Cardinality({c \in Cells : tile(grid, c) = TILE_PERMAWALL}) < 10

(***************************************************************************)
(* C22: corridors end in doors                                             *)
(***************************************************************************)
\* C22: in every step, every doorway on the list and the doorway dig_random
\* works on are to become doors; and after a call of dig_corridor that
\* returned 1 with the length L, the cell L+1 steps ahead of the entrance is
\* inside is_in_bounds and not wall-like, the cell L steps ahead, the last
\* one dug, is Door, and the list of doorways is as it was: lines 298-301
\* were not run.
C22_CorridorsEndInDoors ==
    [][/\ \A i \in 1..Len(doorways') : doorways'[i].has_door
       /\ pc' \in {"try", "finalise"} => door'.has_door
       /\ (pc = "try" /\ call'.op = "corridor" /\ call'.ret = 1) =>
             /\ doorways' = doorways
             /\ is_in_bounds(Ahead(call'.length + 1))
             /\ ~is_wall(grid', Ahead(call'.length + 1))
             /\ tile(grid', Ahead(call'.length)) = TILE_DOOR]_vars

\* C22, its case: a corridor of three cells or more was dug while doorways
\* were left on the list, and none was added
C22_LongCorridor ==
    /\ pc = "finalise"
    /\ call.op = "corridor"
    /\ call.ret = 1
    /\ call.length >= 3
    /\ Len(doorways) >= 1
    /\ tile(grid, Ahead(call.length)) = TILE_DOOR

(***************************************************************************)
(* C23: left() and right()                                                 *)
(***************************************************************************)
\* C23: for each of the four unit directions d, right(d) is (-d.y, d.x) and
\* left(d) is (d.y, -d.x), both unit directions again; left(right(d)) and
\* right(left(d)) are d; right four times is d; right twice and left twice
\* are both -d; and left and right map the four directions one to one onto
\* the four directions.  So a heading that starts as a unit direction is one
\* after any turns, and after k quarter turns to the right, counted modulo
\* 4, it is the start heading with right applied k times.
C23_RotationAlgebra ==
    /\ \A d \in Directions :
          /\ right(d) = Vector(0 - d.y, d.x)
          /\ left(d) = Vector(d.y, 0 - d.x)
          /\ right(d) \in Directions
          /\ left(d) \in Directions
          /\ left(right(d)) = d
          /\ right(left(d)) = d
          /\ right(right(right(right(d)))) = d
          /\ right(right(d)) = VMul(d, -1)
          /\ left(left(d)) = VMul(d, -1)
    /\ {right(d) : d \in Directions} = Directions
    /\ {left(d) : d \in Directions} = Directions
    /\ \A d \in Directions, e \in Directions :
          (right(d) = right(e) \/ left(d) = left(e)) => d = e
    /\ door.heading \in Directions
    /\ door.heading =
          LET d == doorways[1].heading
          IN  CASE tries = 0 -> d
                [] tries = 1 -> right(d)
                [] tries = 2 -> VMul(d, -1)
                [] tries = 3 -> left(d)

\* C23, its case: the heading was turned a quarter to the left of where it
\* started and the position moved away from where it started
C23_TurnedLeft ==
    /\ tries = 3
    /\ door.heading = left(doorways[1].heading)
    /\ door.heading # doorways[1].heading
    /\ door.location # doorways[1].location

====
